---- MODULE Spec2Model ----
(***************************************************************************)
(* Model of the Miro-board-to-Mermaid pipeline of fixed_mermaid_generator  *)
(* (class FixedMermaidGenerator) and of the helpers it shares with         *)
(* GPT_raw_to_mermaid.                                                      *)
(*                                                                         *)
(* A Python str is a sequence of one-character strings.  A dict is a       *)
(* sequence of [id, ...] records with pairwise distinct ids, in insertion  *)
(* order.  None is the model value NoneVal.                                 *)
(***************************************************************************)
EXTENDS Integers, Sequences, FiniteSets, TLC

VARIABLES
    pc,             \* position of the running program
    items,          \* data['items'] as far as the first loop has read it
    connectors,     \* data['connectors'] as far as the second loop has read it
    nodes,          \* dict nodes of extract_nodes_and_connections
    connections,    \* list connections of extract_nodes_and_connections
    id_map,         \* dict id_map of generate_mermaid
    start_node_id,  \* start_node_id of generate_mermaid / result of find_start_node
    mermaid_lines,  \* list mermaid_lines of generate_mermaid
    arg,            \* argument of a direct call of a helper
    ret,            \* list of the values the direct calls returned, oldest first
    files,          \* names of the files written
    stdout          \* lines printed

vars == <<pc, items, connectors, nodes, connections, id_map, start_node_id,
          mermaid_lines, arg, ret, files, stdout>>

\* None: a sequence no str equals (a str holds one-character strings only)
NoneVal == <<"None">>

(***************************************************************************)
(* Characters                                                              *)
(***************************************************************************)
UpperCase == <<"A","B","C","D","E","F","G","H","I","J","K","L","M",
               "N","O","P","Q","R","S","T","U","V","W","X","Y","Z">>
LowerCase == <<"a","b","c","d","e","f","g","h","i","j","k","l","m",
               "n","o","p","q","r","s","t","u","v","w","x","y","z">>
Digits == {"0","1","2","3","4","5","6","7","8","9"}
Letters == {UpperCase[k] : k \in 1..26} \cup {LowerCase[k] : k \in 1..26}

\* str.lower() on one character
LowerChar(c) ==
    IF \E k \in 1..26 : UpperCase[k] = c
    THEN LowerCase[CHOOSE k \in 1..26 : UpperCase[k] = c]
    ELSE c

\* str.lower()
Lower(s) == [k \in 1..Len(s) |-> LowerChar(s[k])]

\* what \s matches and str.strip() removes
WhiteSpace == {" ", "\t", "\n", "\r", "\f"}

Min(S) == CHOOSE m \in S : \A n \in S : m <= n

\* s[i:j] of Python with 0 <= i, counted from 1 here: the characters i..j
Slice(s, i, j) == [k \in 1..(IF j >= i THEN j - i + 1 ELSE 0) |-> s[i + k - 1]]

\* s.startswith(p)
StartsWith(s, p) == Len(s) >= Len(p) /\ Slice(s, 1, Len(p)) = p

\* p in s
Contains(s, p) ==
    \E i \in 1..(Len(s) + 1) :
        i + Len(p) - 1 <= Len(s) /\ Slice(s, i, i + Len(p) - 1) = p

(***************************************************************************)
(* _html_to_text                                                           *)
(***************************************************************************)
\* re "<(br|/p)>" with re.I matches at s[i]
BreakTagAt(s, i) ==
    /\ i + 3 <= Len(s)
    /\ s[i] = "<"
    /\ s[i + 3] = ">"
    /\ \/ LowerChar(s[i + 1]) = "b" /\ LowerChar(s[i + 2]) = "r"
       \/ s[i + 1] = "/" /\ LowerChar(s[i + 2]) = "p"

RECURSIVE SubBreaksFrom(_, _)
SubBreaksFrom(s, i) ==
    IF i > Len(s) THEN <<>>
    ELSE IF BreakTagAt(s, i) THEN <<"\n">> \o SubBreaksFrom(s, i + 4)
    ELSE <<s[i]>> \o SubBreaksFrom(s, i + 1)

\* re.sub(r"<(br|/p)>", "\n", html, flags=re.I)
SubBreaks(s) == SubBreaksFrom(s, 1)

\* where the match of "<[^>]+>" that starts at s[i] ends, 0 when there is none
TagEnd(s, i) ==
    LET closers == {j \in (i + 1)..Len(s) : s[j] = ">"}
    IN  IF s[i] # "<" \/ closers = {} THEN 0
        ELSE IF Min(closers) >= i + 2 THEN Min(closers) ELSE 0

RECURSIVE StripTagsFrom(_, _)
StripTagsFrom(s, i) ==
    IF i > Len(s) THEN <<>>
    ELSE IF TagEnd(s, i) # 0 THEN StripTagsFrom(s, TagEnd(s, i) + 1)
    ELSE <<s[i]>> \o StripTagsFrom(s, i + 1)

\* re.sub(r"<[^>]+>", "", text)
StripTags(s) == StripTagsFrom(s, 1)

\* html.entities.html5 restricted to the names spelled with the letters
\* g, l, p, t, the only letters the modelled inputs put after an ampersand
\* (none of them holds "#", so numeric references do not occur).
Html5 ==
    { <<<<"l","t",";">>, "<">>,      <<<<"l","t">>, "<">>,
      <<<<"g","t",";">>, ">">>,      <<<<"g","t">>, ">">>,
      <<<<"l","l",";">>, "U+226A">>, <<<<"g","g",";">>, "U+226B">>,
      <<<<"g","g","g",";">>, "U+22D9">>,
      <<<<"g","l",";">>, "U+2277">>, <<<<"l","g",";">>, "U+2276">> }

InHtml5(name) == \E e \in Html5 : e[1] = name
Html5Of(name) == (CHOOSE e \in Html5 : e[1] = name)[2]

\* characters the name of a character reference cannot hold: [^\t\n\f <&#;]
RefStop == {"\t", "\n", "\f", " ", "<", "&", "#", ";"}

\* length of the text "[^\t\n\f <&#;]{1,32};?" matches from s[i], 0 when none
RefLen(s, i) ==
    LET stops == {j \in i..Len(s) : s[j] \in RefStop}
        run   == (IF stops = {} THEN Len(s) + 1 ELSE Min(stops)) - i
        n     == IF run > 32 THEN 32 ELSE run
    IN  IF n = 0 THEN 0
        ELSE IF i + n <= Len(s) /\ s[i + n] = ";" THEN n + 1 ELSE n

\* html._replace_charref for a named reference: s is the text after "&"
ReplaceCharref(s) ==
    IF InHtml5(s) THEN <<Html5Of(s)>>
    ELSE LET fits == {x \in 2..(Len(s) - 1) : InHtml5(Slice(s, 1, x))}
         IN  IF fits = {} THEN <<"&">> \o s
             ELSE LET x == CHOOSE y \in fits : \A z \in fits : z <= y
                  IN  <<Html5Of(Slice(s, 1, x))>> \o Slice(s, x + 1, Len(s))

RECURSIVE UnescapeFrom(_, _)
UnescapeFrom(s, i) ==
    IF i > Len(s) THEN <<>>
    ELSE IF s[i] = "&" /\ RefLen(s, i + 1) > 0
    THEN ReplaceCharref(Slice(s, i + 1, i + RefLen(s, i + 1)))
            \o UnescapeFrom(s, i + 1 + RefLen(s, i + 1))
    ELSE <<s[i]>> \o UnescapeFrom(s, i + 1)

\* html.unescape(text)
Unescape(s) == UnescapeFrom(s, 1)

RECURSIVE CollapseFrom(_, _)
CollapseFrom(s, i) ==
    IF i > Len(s) THEN <<>>
    ELSE IF s[i] \in WhiteSpace
    THEN LET rest == {j \in (i + 1)..Len(s) : s[j] \notin WhiteSpace}
         IN  <<" ">> \o CollapseFrom(s, IF rest = {} THEN Len(s) + 1 ELSE Min(rest))
    ELSE <<s[i]>> \o CollapseFrom(s, i + 1)

\* re.sub(r"\s+", " ", text)
CollapseSpace(s) == CollapseFrom(s, 1)

\* str.strip()
Strip(s) ==
    LET keep == {j \in 1..Len(s) : s[j] \notin WhiteSpace}
    IN  IF keep = {} THEN <<>>
        ELSE Slice(s, Min(keep), CHOOSE j \in keep : \A k \in keep : k <= j)

_html_to_text(html) ==
    IF html = <<>> THEN <<>>
    ELSE Strip(CollapseSpace(Unescape(StripTags(SubBreaks(html)))))

(***************************************************************************)
(* sanitize_id                                                             *)
(***************************************************************************)
IdChars == Letters \cup Digits \cup {"_"}

RECURSIVE SubBadRunsFrom(_, _)
SubBadRunsFrom(s, i) ==
    IF i > Len(s) THEN <<>>
    ELSE IF s[i] \notin IdChars
    THEN LET rest == {j \in (i + 1)..Len(s) : s[j] \in IdChars}
         IN  <<"_">> \o SubBadRunsFrom(s, IF rest = {} THEN Len(s) + 1 ELSE Min(rest))
    ELSE <<s[i]>> \o SubBadRunsFrom(s, i + 1)

\* the same substitution with the pattern "[^0-9A-Za-z_]": no "+"
SubBadChars(s) == [k \in 1..Len(s) |-> IF s[k] \in IdChars THEN s[k] ELSE "_"]

\* re.sub(r"[^0-9A-Za-z_]+", "_", base)
SubBadRuns(s) == SubBadRunsFrom(s, 1)

\* the base of sanitize_id: raw_id, prefixed with "N" unless re.match(r"^[A-Za-z_]")
IdBase(raw_id) ==
    IF Len(raw_id) > 0 /\ raw_id[1] \in Letters \cup {"_"}
    THEN raw_id
    ELSE <<"N">> \o raw_id

sanitize_id(raw_id) == SubBadRuns(IdBase(raw_id))

(***************************************************************************)
(* dict                                                                    *)
(***************************************************************************)
Keys(d) == {d[k].id : k \in 1..Len(d)}
Has(d, id) == id \in Keys(d)
Get(d, id) == d[CHOOSE k \in 1..Len(d) : d[k].id = id]

\* d[entry.id] = entry: a new key goes last, a known key keeps its place
Put(d, entry) ==
    IF Has(d, entry.id)
    THEN [k \in 1..Len(d) |-> IF d[k].id = entry.id THEN entry ELSE d[k]]
    ELSE Append(d, entry)

(***************************************************************************)
(* extract_nodes_and_connections                                           *)
(***************************************************************************)
conclusion_text_map ==
    { <<<<"3","4","5","8","7","6","4","6","3","6","4","7","5","1","7","5","2","6","2">>,
        <<"L","R","E","C"," ","A","p","p","r","o","v","a","l"," ","r","e","q","u","i","r","e","d">>>>,
      <<<<"3","4","5","8","7","6","4","6","3","5","3","0","2","8","8","8","4","4","2">>,
        <<"C","o","n","t","i","n","u","e"," ","t","o"," ","R","e","s","e","a","r","c","h">>>>,
      <<<<"3","4","5","8","7","6","4","6","3","6","4","7","4","7","9","6","5","4","5">>,
        <<"A","p","p","l","y"," ","v","i","a"," ","D","A","P","-","R">>>>,
      <<<<"3","4","5","8","7","6","4","6","3","6","4","7","4","9","5","1","1","4","0">>,
        <<"C","o","n","t","a","c","t"," ","P","O"," ","H","R","A"," ","a","p","p","r","o","v","a","l"," ","r","e","q","u","i","r","e","d">>>>,
      <<<<"3","4","5","8","7","6","4","6","3","6","4","7","4","9","5","1","4","2","1">>,
        <<"C","o","n","t","a","c","t"," ","P","O"," ","H","R","A"," ","a","p","p","r","o","v","a","l"," ","r","e","q","u","i","r","e","d">>>>,
      <<<<"3","4","5","8","7","6","4","6","3","6","4","7","4","9","5","1","4","4","3">>,
        <<"S","e","e","k"," ","A","d","v","i","c","e">>>>,
      <<<<"3","4","5","8","7","6","4","6","3","6","4","7","5","1","7","5","1","7","8">>,
        <<"S","e","e","k"," ","A","d","v","i","c","e">>>>,
      <<<<"3","4","5","8","7","6","4","6","3","6","4","7","5","1","7","5","4","1","1">>,
        <<"E","t","h","i","c","s"," ","a","p","p","r","o","v","a","l"," ","r","e","q","u","i","r","e","d">>>> }

StartItemId == <<"3","4","5","8","7","6","4","6","3","5","3","0","1","8","7","5","0","9","0">>
TitlePrefix == <<"d","e","c","i","s","i","o","n"," ","t","r","e","e">>
S_start == <<"s","t","a","r","t">>
S_Start == <<"S","t","a","r","t">>
S_Note == <<"N","o","t","e">>
S_Conclusion == <<"C","o","n","c","l","u","s","i","o","n">>
S_shape == <<"s","h","a","p","e">>

\* item_id in conclusion_text_map
InConclusionMap(item_id) == \E e \in conclusion_text_map : e[1] = item_id

\* conclusion_text_map.get(item_id, 'Conclusion')
ConclusionText(item_id) ==
    IF InConclusionMap(item_id)
    THEN (CHOOSE e \in conclusion_text_map : e[1] = item_id)[2]
    ELSE S_Conclusion

\* not item_id
NoId(item_id) == item_id = NoneVal \/ item_id = <<>>

NodeInfo(type, mermaid_shape, text) ==
    [type |-> type, mermaid_shape |-> mermaid_shape, text |-> text]

\* the same branch with the test of the start id ahead of the test of the rhombus
ShapeNodeStartFirst(item) ==
    LET content == _html_to_text(item.content)
    IN  IF item.id = StartItemId THEN NodeInfo("start", "stadium", S_Start)
        ELSE IF item.shape = "rhombus" THEN NodeInfo("question", "diamond", content)
        ELSE IF content # <<>> THEN NodeInfo("process", "rectangle", content)
        ELSE NodeInfo("conclusion", "stadium", ConclusionText(item.id))

\* the branch item_type == 'shape'
ShapeNode(item) ==
    LET content == _html_to_text(item.content)
    IN  IF item.shape = "rhombus" THEN NodeInfo("question", "diamond", content)
        ELSE IF item.id = StartItemId THEN NodeInfo("start", "stadium", S_Start)
        ELSE IF content # <<>> THEN NodeInfo("process", "rectangle", content)
        ELSE NodeInfo("conclusion", "stadium", ConclusionText(item.id))

\* the branch item_type == 'sticky_note'
StickyNode(item) ==
    LET content == _html_to_text(item.content)
    IN  NodeInfo("note", "rectangle", IF content # <<>> THEN content ELSE S_Note)

\* the branch item_type == 'text': <<node_info>>, or <<>> on continue
TextNode(item) ==
    LET content == _html_to_text(item.content)
    IN  IF content # <<>> /\ ~StartsWith(Lower(content), TitlePrefix)
        THEN <<NodeInfo("text", "rectangle", content)>>
        ELSE <<>>

\* the same test without "or item_id in conclusion_text_map"
KeepNodeWithText(item_id, node_info) ==
    node_info.text # <<>> /\ node_info.text # S_shape

\* the test before nodes[item_id] = node_info
KeepNode(item_id, node_info) ==
    (node_info.text # <<>> /\ node_info.text # S_shape) \/ InConclusionMap(item_id)

\* one pass of the loop over data['items']: nodes after it
ExtractNode(d, item) ==
    IF NoId(item.id) THEN d
    ELSE IF item.type \notin {"shape", "sticky_note", "text"} THEN d
    ELSE LET found == IF item.type = "shape" THEN <<ShapeNode(item)>>
                      ELSE IF item.type = "sticky_note" THEN <<StickyNode(item)>>
                      ELSE TextNode(item)
         IN  IF found # <<>> /\ KeepNode(item.id, found[1])
             THEN Put(d, [id |-> item.id, type |-> found[1].type,
                          mermaid_shape |-> found[1].mermaid_shape,
                          text |-> found[1].text])
             ELSE d

RECURSIVE Join(_, _)
\* sep.join(parts)
Join(parts, sep) ==
    IF parts = <<>> THEN <<>>
    ELSE IF Len(parts) = 1 THEN parts[1]
    ELSE parts[1] \o sep \o Join(Tail(parts), sep)

CaptionSep == <<" ", "/", " ">>

\* a label that joins every normalized caption, the empty ones too
ConnectionLabelAll(captions) ==
    Join([k \in 1..Len(captions) |-> _html_to_text(captions[k])], CaptionSep)

\* the label of a connector: its non-empty normalized captions, ' / '-joined
ConnectionLabel(captions) ==
    LET texts == [k \in 1..Len(captions) |-> _html_to_text(captions[k])]
    IN  Join(SelectSeq(texts, LAMBDA t : t # <<>>), CaptionSep)

\* a pass that appends a connection whatever the two identifiers are
ExtractConnectionAnyId(cs, conn) ==
    Append(cs, <<conn.startItem, conn.endItem, ConnectionLabel(conn.captions)>>)

\* one pass of the loop over data['connectors']: connections after it
ExtractConnection(cs, conn) ==
    IF NoId(conn.startItem) \/ NoId(conn.endItem) THEN cs
    ELSE Append(cs, <<conn.startItem, conn.endItem, ConnectionLabel(conn.captions)>>)

(***************************************************************************)
(* find_start_node                                                         *)
(***************************************************************************)
\* the resolver with target_ids collected from the sources of the connections
find_start_node_by_source(ns, cs) ==
    LET target_ids == {cs[k][1] : k \in 1..Len(cs)}
        start_candidates == SelectSeq(ns, LAMBDA n : n.id \notin target_ids)
        marked == SelectSeq(start_candidates,
                      LAMBDA n : n.type = "start" \/ Contains(Lower(n.text), S_start))
    IN  IF marked # <<>> THEN marked[1].id
        ELSE IF start_candidates # <<>> THEN start_candidates[1].id
        ELSE IF ns # <<>> THEN ns[1].id
        ELSE NoneVal

\* the resolver without the preference for marked candidates
find_start_node_first_candidate(ns, cs) ==
    LET target_ids == {cs[k][2] : k \in 1..Len(cs)}
        start_candidates == SelectSeq(ns, LAMBDA n : n.id \notin target_ids)
    IN  IF start_candidates # <<>> THEN start_candidates[1].id
        ELSE IF ns # <<>> THEN ns[1].id
        ELSE NoneVal

find_start_node(ns, cs) ==
    LET target_ids == {cs[k][2] : k \in 1..Len(cs)}
        start_candidates == SelectSeq(ns, LAMBDA n : n.id \notin target_ids)
        marked == SelectSeq(start_candidates,
                      LAMBDA n : n.type = "start" \/ Contains(Lower(n.text), S_start))
    IN  IF marked # <<>> THEN marked[1].id
        ELSE IF start_candidates # <<>> THEN start_candidates[1].id
        ELSE IF ns # <<>> THEN ns[1].id
        ELSE NoneVal

(***************************************************************************)
(* get_mermaid_shape and generate_mermaid                                  *)
(***************************************************************************)
RECURSIVE ReplaceChar(_, _, _)
\* s.replace(c, by) for a one-character c
ReplaceChar(s, c, by) ==
    IF s = <<>> THEN <<>>
    ELSE (IF s[1] = c THEN by ELSE <<s[1]>>) \o ReplaceChar(Tail(s), c, by)

Brackets == {"{", "}", "(", ")", "[", "]"}

\* re.sub(r'[{}()\[\]]', '', s)
DropBrackets(s) == SelectSeq(s, LAMBDA c : c \notin Brackets)

NodeLabelMax == 50
EdgeLabelMax == 30
Ellipsis == <<".", ".", ".">>

\* a truncation that keeps max characters and then adds the marker
TruncateKeepMax(s, max) ==
    IF Len(s) > max THEN Slice(s, 1, max) \o Ellipsis ELSE s

\* s if len(s) <= max, else s[:max - 3] + "..."
Truncate(s, max) ==
    IF Len(s) > max THEN Slice(s, 1, max - 3) \o Ellipsis ELSE s

\* safe_text of get_mermaid_shape before "if len(safe_text) > 50"
SafeTextFull(text) ==
    DropBrackets(
        Strip(ReplaceChar(ReplaceChar(ReplaceChar(ReplaceChar(text,
            "\"", <<"'">>), "\n", <<" ">>), "<", <<"&","l","t",";">>),
            ">", <<"&","g","t",";">>)))

\* safe_text of get_mermaid_shape
SafeText(text) == Truncate(SafeTextFull(text), NodeLabelMax)

Quoted(s) == <<"\"">> \o s \o <<"\"">>

\* (shape_start, shape_end)
get_mermaid_shape(node_info, text) ==
    IF node_info.mermaid_shape = "diamond"
    THEN << <<"{">>, Quoted(SafeText(text)) \o <<"}">> >>
    ELSE IF node_info.mermaid_shape = "stadium"
    THEN << <<"(", "[">>, Quoted(SafeText(text)) \o <<"]", ")">> >>
    ELSE << <<"[">>, Quoted(SafeText(text)) \o <<"]">> >>

\* clean_label of generate_mermaid before "if len(clean_label) > 30"
CleanLabelFull(label) ==
    DropBrackets(
        Strip(ReplaceChar(ReplaceChar(ReplaceChar(label,
            "\"", <<"'">>), "<", <<>>), ">", <<>>)))

\* clean_label of generate_mermaid
CleanLabel(label) == Truncate(CleanLabelFull(label), EdgeLabelMax)

\* id_map = {orig_id: sanitize_id(orig_id) for orig_id in nodes.keys()}
IdMap(ns) == [k \in 1..Len(ns) |-> [id |-> ns[k].id, mermaid |-> sanitize_id(ns[k].id)]]

\* a line f'    {mermaid_id}{shape_start}{shape_end}'
NodeLine(m, n) ==
    LET shape == get_mermaid_shape(n, n.text)
    IN  [kind |-> "node", id |-> Get(m, n.id).mermaid,
         shape_start |-> shape[1], shape_end |-> shape[2]]

\* an edge line that names the external identifiers, not the canonical ones
EdgeLineRawIds(m, c) ==
    [kind |-> "edge", start |-> c[1], end |-> c[2],
     labeled |-> c[3] # <<>>,
     label |-> IF c[3] # <<>> THEN CleanLabel(c[3]) ELSE <<>>]

\* a line f'    {start_mermaid} -->|"{clean_label}"| {end_mermaid}', or the
\* bare arrow of an empty label
EdgeLine(m, c) ==
    [kind |-> "edge", start |-> Get(m, c[1]).mermaid, end |-> Get(m, c[2]).mermaid,
     labeled |-> c[3] # <<>>,
     label |-> IF c[3] # <<>> THEN CleanLabel(c[3]) ELSE <<>>]

HeaderLine == [kind |-> "header", text |-> "flowchart TD"]
BlankLine == [kind |-> "blank", text |-> ""]

\* a document that declares the nodes as the node set holds them, the
\* start node at its own place
MermaidLinesInsertionOrder(ns, cs, m, start) ==
    LET kept == SelectSeq(cs, LAMBDA c : Has(m, c[1]) /\ Has(m, c[2]))
    IN  <<HeaderLine>>
          \o [k \in 1..Len(ns) |-> NodeLine(m, ns[k])]
          \o <<BlankLine>>
          \o [k \in 1..Len(kept) |-> EdgeLine(m, kept[k])]

\* mermaid_lines of generate_mermaid for non-empty nodes
MermaidLines(ns, cs, m, start) ==
    LET first  == IF start # NoneVal /\ start # <<>> /\ Has(ns, start)
                  THEN <<NodeLine(m, Get(ns, start))>> ELSE <<>>
        others == SelectSeq(ns, LAMBDA n : n.id # start)
        kept   == SelectSeq(cs, LAMBDA c : Has(m, c[1]) /\ Has(m, c[2]))
    IN  <<HeaderLine>> \o first
          \o [k \in 1..Len(others) |-> NodeLine(m, others[k])]
          \o <<BlankLine>>
          \o [k \in 1..Len(kept) |-> EdgeLine(m, kept[k])]

(***************************************************************************)
(* Inputs                                                                  *)
(***************************************************************************)
MaxItems == 3       \* items of a board
MaxConnectors == 2  \* connectors of a board
MaxClassified == 2  \* items of a board when every kind of item is drawn
MaxTokens == 3      \* pieces of a rich-text fragment
MaxIdLen == 3       \* characters of an external identifier
MaxCalls == 2       \* successive calls of a helper on its own result

HtmlQuestion == <<"<","p",">","I","s"," ","X"," ","t","r","u","e","?","<","/","p",">">>
HtmlRestart == <<"<","p",">","R","e","s","t","a","r","t","<","/","p",">">>
HtmlTitle == <<"<","p",">","D","e","c","i","s","i","o","n"," ","T","r","e","e"," ",
               "O","v","e","r","v","i","e","w","<","/","p",">">>
HtmlBegin == <<"<","p",">","B","e","g","i","n","<","/","p",">">>
HtmlYes == <<"<","p",">","Y","e","s","<","/","p",">">>
HtmlNo == <<"N","o","<","b","r",">">>

Id_1 == <<"1">>
Id_N1 == <<"N","1">>
Id_T == <<"T">>
Id_Mapped == <<"3","4","5","8","7","6","4","6","3","6","4","7","5","1","7","5","2","6","2">>

Item(id, type, shape, content) ==
    [id |-> id, type |-> type, shape |-> shape, content |-> content]

\* the items a board of the pipeline is made of
ItemPool ==
    { Item(Id_1, "shape", "rhombus", HtmlQuestion),
      Item(Id_N1, "shape", "rectangle", <<>>),
      Item(Id_Mapped, "shape", "round_rectangle", <<>>),
      Item(StartItemId, "shape", "circle", HtmlBegin),
      Item(Id_N1, "shape", "rectangle", HtmlRestart),
      Item(Id_T, "text", NoneVal, HtmlTitle),
      Item(NoneVal, "shape", "rhombus", HtmlQuestion) }

Connector(start, end, captions) ==
    [startItem |-> start, endItem |-> end, captions |-> captions]

EndpointIds == {Id_1, Id_N1, StartItemId}

\* the connectors a board of the pipeline is made of: every pair of
\* endpoints without caption, connectors without a source or a target
\* identifier, captioned connectors, a connector from the title
ConnectorPool ==
    { Connector(a, b, <<>>) : a \in EndpointIds, b \in EndpointIds }
      \cup { Connector(NoneVal, Id_1, <<>>),
             Connector(Id_1, <<>>, <<HtmlYes>>),
             Connector(NoneVal, NoneVal, <<>>),
             Connector(Id_1, Id_N1, <<HtmlYes>>),
             Connector(Id_1, Id_Mapped, <<<<>>, HtmlNo>>),
             Connector(Id_N1, Id_1, <<HtmlYes, <<>>, HtmlNo>>),
             Connector(Id_T, StartItemId, <<>>) }

\* content: none, ordinary, a title, the literal 'shape'
ItemContents == {<<>>, HtmlRestart, HtmlTitle, S_shape}

\* every kind of item, for the classification
AllItems ==
    { Item(id, "shape", shape, content) :
          id \in {NoneVal, <<>>, Id_1, StartItemId, Id_Mapped},
          shape \in {"rhombus", "rectangle"},
          content \in ItemContents }
      \cup { Item(id, type, NoneVal, content) :
          id \in {NoneVal, <<>>, Id_1, StartItemId, Id_Mapped},
          type \in {"sticky_note", "text"},
          content \in ItemContents }
      \cup { Item(id, "frame", NoneVal, <<>>) :
          id \in {NoneVal, <<>>, Id_1, StartItemId, Id_Mapped} }

RECURSIVE Flatten(_)
Flatten(parts) == IF parts = <<>> THEN <<>> ELSE parts[1] \o Flatten(Tail(parts))

SeqsUpTo(S, n) == UNION {[1..k -> S] : k \in 0..n}

\* the pieces rich text is made of: references, tag delimiters, text
HtmlTokens ==
    { <<"&","l","t",";">>, <<"&","g","t",";">>, <<"<">>, <<">">>,
      <<"p">>, <<"/">>, <<" ">> }

HtmlInputs == {Flatten(t) : t \in SeqsUpTo(HtmlTokens, MaxTokens)}

\* the characters external identifiers are made of
IdAlphabet == {"1", "N", "a", "_", "-", " "}

IdInputs == SeqsUpTo(IdAlphabet, MaxIdLen)

MaxPad == 50      \* plain characters at the head of a long caption
MaxSpecial == 2   \* pieces at the end of a long caption

LabelPad(n) == [k \in 1..n |-> "x"]

\* the pieces of rich text the label cleaning rewrites, removes or keeps
LabelTokens ==
    { <<"&","l","t",";">>, <<"&","g","t",";">>, <<"\"">>, <<"\n">>, <<" ">>,
      <<"{", "}">>, <<"(", ")">>, <<"[", "]">>, <<"x">> }

\* the content of an item, or the caption of a connector, long enough to be cut
LabelInputs ==
    { LabelPad(n) \o Flatten(t) :
        n \in 0..MaxPad, t \in SeqsUpTo(LabelTokens, MaxSpecial) }

(***************************************************************************)
(* The pipeline: generate_mermaid                                          *)
(***************************************************************************)
Idle ==
    /\ items = <<>> /\ connectors = <<>> /\ nodes = <<>> /\ connections = <<>>
    /\ id_map = <<>> /\ start_node_id = NoneVal /\ mermaid_lines = <<>>
    /\ files = {} /\ stdout = <<>>

Init ==
    /\ pc = "items"
    /\ Idle
    /\ arg = <<>> /\ ret = <<>>

\* one pass of "for item in data.get('items', [])"
ExtractItem(item) ==
    /\ pc = "items"
    /\ items' = Append(items, item)
    /\ nodes' = ExtractNode(nodes, item)
    /\ UNCHANGED <<pc, connectors, connections, id_map, start_node_id,
                   mermaid_lines, arg, ret, files, stdout>>

\* data['items'] is exhausted
EndItems ==
    /\ pc = "items"
    /\ pc' = "connectors"
    /\ UNCHANGED <<items, connectors, nodes, connections, id_map, start_node_id,
                   mermaid_lines, arg, ret, files, stdout>>

\* one pass of "for conn in data.get('connectors', [])"
ExtractConnector(conn) ==
    /\ pc = "connectors"
    /\ connectors' = Append(connectors, conn)
    /\ connections' = ExtractConnection(connections, conn)
    /\ UNCHANGED <<pc, items, nodes, id_map, start_node_id,
                   mermaid_lines, arg, ret, files, stdout>>

\* data['connectors'] is exhausted: return nodes, connections
EndConnectors ==
    /\ pc = "connectors"
    /\ pc' = "extracted"
    /\ UNCHANGED <<items, connectors, nodes, connections, id_map, start_node_id,
                   mermaid_lines, arg, ret, files, stdout>>

\* generate_mermaid without its "if not nodes: return"
GenerateMermaidAlways ==
    /\ pc = "extracted"
    /\ pc' = "done"
    /\ id_map' = IdMap(nodes)
    /\ start_node_id' = find_start_node(nodes, connections)
    /\ mermaid_lines' = MermaidLines(nodes, connections, id_map', start_node_id')
    /\ files' = {"fixed_decision_tree.mmd", "fixed_decision_tree.md"}
    /\ stdout' = stdout \o <<"Generated fixed Mermaid diagram", "Nodes, Connections",
                             "Also generated">>
    /\ UNCHANGED <<items, connectors, nodes, connections, arg, ret>>

\* generate_mermaid, from the return of extract_nodes_and_connections to
\* its end (the printed lines are modelled without their counts and names)
GenerateMermaid ==
    /\ pc = "extracted"
    /\ pc' = "done"
    /\ IF nodes = <<>>
       THEN /\ stdout' = Append(stdout, "No nodes found!")
            /\ UNCHANGED <<id_map, start_node_id, mermaid_lines, files>>
       ELSE /\ id_map' = IdMap(nodes)
            /\ start_node_id' = find_start_node(nodes, connections)
            /\ mermaid_lines' = MermaidLines(nodes, connections, id_map', start_node_id')
            /\ files' = {"fixed_decision_tree.mmd", "fixed_decision_tree.md"}
            /\ stdout' = stdout \o <<"Generated fixed Mermaid diagram", "Nodes, Connections",
                                     "Also generated">>
    /\ UNCHANGED <<items, connectors, nodes, connections, arg, ret>>

\* find_start_node called on the extracted nodes and connections
FindStartNode ==
    /\ pc = "extracted"
    /\ pc' = "resolved"
    /\ ret' = <<find_start_node(nodes, connections)>>
    /\ UNCHANGED <<items, connectors, nodes, connections, id_map, start_node_id,
                   mermaid_lines, arg, files, stdout>>

Next ==
    \/ \E item \in ItemPool : Len(items) < MaxItems /\ ExtractItem(item)
    \/ EndItems
    \/ \E conn \in ConnectorPool : Len(connectors) < MaxConnectors /\ ExtractConnector(conn)
    \/ EndConnectors
    \/ GenerateMermaid
    \/ FindStartNode

Spec == Init /\ [][Next]_vars

(***************************************************************************)
(* Classification of every kind of item                                    *)
(***************************************************************************)
NextItems == \E item \in AllItems : Len(items) < MaxClassified /\ ExtractItem(item)

SpecItems == Init /\ [][NextItems]_vars

(***************************************************************************)
(* The helpers, called on their own                                        *)
(***************************************************************************)
InitText == pc = "call" /\ Idle /\ arg \in HtmlInputs /\ ret = <<>>

\* _html_to_text(arg), then _html_to_text of what it returned
CallHtmlToText ==
    /\ pc = "call"
    /\ Len(ret) < MaxCalls
    /\ ret' = Append(ret, _html_to_text(IF ret = <<>> THEN arg ELSE ret[Len(ret)]))
    /\ UNCHANGED <<pc, items, connectors, nodes, connections, id_map, start_node_id,
                   mermaid_lines, arg, files, stdout>>

SpecText == InitText /\ [][CallHtmlToText]_vars

InitId == pc = "call" /\ Idle /\ arg \in IdInputs /\ ret = <<>>

\* sanitize_id(arg)
CallSanitizeId ==
    /\ pc = "call"
    /\ ret = <<>>
    /\ ret' = <<sanitize_id(arg)>>
    /\ UNCHANGED <<pc, items, connectors, nodes, connections, id_map, start_node_id,
                   mermaid_lines, arg, files, stdout>>

SpecId == InitId /\ [][CallSanitizeId]_vars

(***************************************************************************)
(* A board of one decision and one connector that carry the same rich text *)
(***************************************************************************)
InitLabel == pc = "items" /\ Idle /\ arg \in LabelInputs /\ ret = <<>>

NextLabel ==
    \/ Len(items) < 1 /\ ExtractItem(Item(Id_1, "shape", "rhombus", arg))
    \/ EndItems
    \/ Len(connectors) < 1 /\ ExtractConnector(Connector(Id_1, Id_1, <<arg>>))
    \/ EndConnectors
    \/ GenerateMermaid

SpecLabel == InitLabel /\ [][NextLabel]_vars

(***************************************************************************)
(* Properties of the helpers                                               *)
(***************************************************************************)
\* C1: _html_to_text is idempotent: normalizing what it returned returns
\* it unchanged, for every input.
C1_NormalizerIdempotent == Len(ret) >= 2 => ret[2] = ret[1]

\* C2: the id_map of a run never gives two nodes the same canonical
\* identifier: sanitize_id is injective over the keys of the node set.
C2_IdMapInjective ==
    pc = "done" =>
        \A i, j \in 1..Len(id_map) :
            id_map[i].id # id_map[j].id => id_map[i].mermaid # id_map[j].mermaid

\* C3: the result of sanitize_id is non-empty, starts with a letter or an
\* underscore, holds only ASCII letters, digits and underscores, and is the
\* prefixed base with every maximal run of other characters replaced by
\* exactly one underscore.
C3_SanitizedIdValid ==
    ret # <<>> =>
        LET r == ret[1]
            base == IF arg # <<>> /\ arg[1] \in Letters \cup {"_"}
                    THEN arg ELSE <<"N">> \o arg
            good(i) == base[i] \in IdChars
            \* the allowed characters and the first character of each run
            kept == {i \in 1..Len(base) : good(i) \/ i = 1 \/ good(i - 1)}
            rank(i) == Cardinality({j \in kept : j <= i})
        IN  /\ Len(r) > 0
            /\ r[1] \in Letters \cup {"_"}
            /\ \A k \in 1..Len(r) : r[k] \in IdChars
            /\ Len(r) = Cardinality(kept)
            /\ \A i \in kept : r[rank(i)] = IF good(i) THEN base[i] ELSE "_"

\* an identifier made only of disallowed characters has been sanitized
C3_Witness == arg = <<"-", " ">> /\ ret = << <<"N", "_">> >>

(***************************************************************************)
(* Properties of the classification                                        *)
(***************************************************************************)
LastItem == items[Len(items)]

\* no item read before the last one carries its identifier
LastIdIsNew == \A k \in 1..(Len(items) - 1) : items[k].id # LastItem.id

\* the ordered first-match policy: <<role, label>>, or <<>> for excluded
PolicyOutcome(item) ==
    LET content == _html_to_text(item.content)
    IN  IF item.type = "text" /\ StartsWith(Lower(content), TitlePrefix) THEN <<>>
        ELSE IF item.type = "text" /\ content # <<>> THEN <<"text", content>>
        ELSE IF item.type = "sticky_note"
            THEN <<"note", IF content # <<>> THEN content ELSE S_Note>>
        ELSE IF item.type = "shape" /\ item.shape = "rhombus" THEN <<"question", content>>
        ELSE IF item.type = "shape" /\ item.id = StartItemId THEN <<"start", S_Start>>
        ELSE IF item.type = "shape" /\ content # <<>> THEN <<"process", content>>
        ELSE IF item.type = "shape" THEN <<"conclusion", ConclusionText(item.id)>>
        ELSE <<>>

\* the node of the last item is in the node set with this role and label
LastItemIsNode(role, label) ==
    /\ Has(nodes, LastItem.id)
    /\ Get(nodes, LastItem.id).type = role
    /\ Get(nodes, LastItem.id).text = label

\* the outcome is kept past the final test of meaningful content
Meaningful(item, outcome) ==
    (outcome[2] # <<>> /\ outcome[2] # S_shape) \/ InConclusionMap(item.id)

\* C4 as claimed: an item with a non-empty identifier gets the outcome of
\* the first-match policy, and a non-excluded outcome is always in the
\* node set with that role and label.
C4_PolicyAlwaysKept ==
    (items # <<>> /\ ~NoId(LastItem.id)) =>
        LET outcome == PolicyOutcome(LastItem)
        IN  IF outcome # <<>>
            THEN LastItemIsNode(outcome[1], outcome[2])
            ELSE LastIdIsNew => ~Has(nodes, LastItem.id)

\* C4 amended: the outcome of the first-match policy is in the node set
\* with that role and label when its label is non-empty and not 'shape',
\* or its identifier is in the override table; any other item produces no
\* node.
C4_PolicyThenKeepTest ==
    (items # <<>> /\ ~NoId(LastItem.id)) =>
        LET outcome == PolicyOutcome(LastItem)
        IN  IF outcome # <<>> /\ Meaningful(LastItem, outcome)
            THEN LastItemIsNode(outcome[1], outcome[2])
            ELSE LastIdIsNew => ~Has(nodes, LastItem.id)

\* a non-rhombus shape with content and the designated start id was
\* classified: rule 5 won over rule 6
C4_Witness ==
    /\ items # <<>>
    /\ LastItem = Item(StartItemId, "shape", "rectangle", HtmlRestart)
    /\ LastItemIsNode("start", S_Start)

LastIsRhombus ==
    /\ items # <<>>
    /\ ~NoId(LastItem.id)
    /\ LastItem.type = "shape"
    /\ LastItem.shape = "rhombus"

\* C5 as claimed: a rhombus with a non-empty identifier always produces a
\* node of role question, with empty content too.
C5_RhombusAlwaysQuestion ==
    LastIsRhombus => LastItemIsNode("question", _html_to_text(LastItem.content))

\* C5 amended: a rhombus with a non-empty identifier produces a node of
\* role question, labelled with its content, when the content is non-empty
\* and not 'shape' or the identifier is in the override table (then also
\* with an empty label); otherwise it produces no node.
C5_RhombusQuestionIfMeaningful ==
    LastIsRhombus =>
        LET content == _html_to_text(LastItem.content)
        IN  IF (content # <<>> /\ content # S_shape) \/ InConclusionMap(LastItem.id)
            THEN LastItemIsNode("question", content)
            ELSE LastIdIsNew => ~Has(nodes, LastItem.id)

\* a rhombus with empty content and an identifier of the override table
\* was kept with an empty label, after one without such an identifier was
\* dropped
C5_Witness ==
    /\ Len(items) = 2
    /\ items[1] = Item(Id_1, "shape", "rhombus", <<>>)
    /\ items[2] = Item(Id_Mapped, "shape", "rhombus", <<>>)
    /\ Keys(nodes) = {Id_Mapped}
    /\ LastItemIsNode("question", <<>>)

(***************************************************************************)
(* Properties of the graph, the start node and the document                *)
(***************************************************************************)
Extracted == pc \in {"extracted", "resolved", "done"}

\* the connector gave both a source and a target identifier
WellFormed(conn) == ~NoId(conn.startItem) /\ ~NoId(conn.endItem)

\* a connector with a source or a target that is no kept node
Dangling(conn) ==
    WellFormed(conn) /\ ~(Has(nodes, conn.startItem) /\ Has(nodes, conn.endItem))

\* C6: both endpoints of every edge of the returned edge sequence are keys
\* of the returned node set; a connector with an excluded or absent
\* endpoint contributes no edge.
C6_EdgesSound ==
    Extracted =>
        \A k \in 1..Len(connections) :
            Has(nodes, connections[k][1]) /\ Has(nodes, connections[k][2])

\* the positions, in insertion order, of the nodes no edge points at
Candidates == {k \in 1..Len(nodes) : \A e \in 1..Len(connections) :
                                         connections[e][2] # nodes[k].id}

\* the candidates of role start or with 'start' in their label
MarkedCandidates ==
    {k \in Candidates : nodes[k].type = "start" \/ Contains(Lower(nodes[k].text), S_start)}

\* the candidates of role start
StartRoleCandidates == {k \in Candidates : nodes[k].type = "start"}

\* C7: find_start_node returns the first candidate (node that is no edge's
\* target) of role start or with 'start' in its label, else the first
\* candidate, else the first node; null exactly for the empty node set, and
\* otherwise a key of the node set.
C7_FiveStepResolver ==
    pc = "resolved" =>
        /\ ret[1] = IF MarkedCandidates # {} THEN nodes[Min(MarkedCandidates)].id
                    ELSE IF Candidates # {} THEN nodes[Min(Candidates)].id
                    ELSE IF nodes # <<>> THEN nodes[1].id
                    ELSE NoneVal
        /\ ret[1] = NoneVal <=> nodes = <<>>
        /\ ret[1] # NoneVal => Has(nodes, ret[1])

\* every node has an incoming edge and the resolver fell back to the first
C7_Witness ==
    /\ pc = "resolved"
    /\ Len(nodes) = 2
    /\ Candidates = {}
    /\ ret[1] = nodes[1].id

\* C8 as claimed: when some node of role start has no incoming edge, the
\* node returned is the earliest such node.
C8_StartRoleWins ==
    (pc = "resolved" /\ StartRoleCandidates # {}) =>
        ret[1] = nodes[Min(StartRoleCandidates)].id

\* C8 amended: one identifier is returned, and when some node of role
\* start has no incoming edge, the node returned is the earliest node
\* without incoming edge that has role start or 'start' in its label.
C8_EarliestMarkedWins ==
    (pc = "resolved" /\ StartRoleCandidates # {}) =>
        /\ Len(ret) = 1
        /\ ret[1] = nodes[Min(MarkedCandidates)].id

\* the node of role start was returned past an earlier candidate
C8_Witness ==
    /\ pc = "resolved"
    /\ StartRoleCandidates # {}
    /\ Min(Candidates) < Min(StartRoleCandidates)
    /\ ret[1] = StartItemId

\* C9 as claimed: with no node, a document of the header alone is produced
\* and the start identifier is null.
C9_EmptyGraphHeaderOnly ==
    (pc = "done" /\ nodes = <<>>) =>
        /\ files # {}
        /\ mermaid_lines = <<HeaderLine>>
        /\ start_node_id = NoneVal

\* C9 amended: with no node, generate_mermaid reports 'No nodes found!' and
\* returns: it writes no document and the start identifier stays null.
C9_EmptyGraphNoDocument ==
    (pc = "done" /\ nodes = <<>>) =>
        /\ files = {}
        /\ mermaid_lines = <<>>
        /\ start_node_id = NoneVal
        /\ stdout = <<"No nodes found!">>

\* a board of excluded items and connectors only was run to the end
C9_Witness ==
    /\ pc = "done"
    /\ nodes = <<>>
    /\ items # <<>>
    /\ connectors # <<>>
    /\ stdout = <<"No nodes found!">>

NodeLines == SelectSeq(mermaid_lines, LAMBDA l : l.kind = "node")
EdgeLines == SelectSeq(mermaid_lines, LAMBDA l : l.kind = "edge")
Declared == {NodeLines[k].id : k \in 1..Len(NodeLines)}

\* C10: both identifiers of every edge line are declared by a node line of
\* the document; a connector with an endpoint that is no kept node gives no
\* edge line and no error, and the node lines are those of the node set.
C10_EdgeLinesDeclared ==
    (pc = "done" /\ nodes # <<>>) =>
        /\ files # {}
        /\ \A k \in 1..Len(EdgeLines) :
               EdgeLines[k].start \in Declared /\ EdgeLines[k].end \in Declared
        /\ Len(EdgeLines) =
               Cardinality({k \in 1..Len(connectors) :
                               WellFormed(connectors[k]) /\ ~Dangling(connectors[k])})
        /\ Len(NodeLines) = Len(nodes)
        /\ Declared = {sanitize_id(nodes[k].id) : k \in 1..Len(nodes)}

\* a document with an edge line was written for a board with a connector
\* whose target is no kept node
C10_Witness ==
    /\ pc = "done"
    /\ Len(EdgeLines) = 1
    /\ Len(connectors) = 2
    /\ Dangling(connectors[2])
    /\ ~Has(nodes, connectors[2].endItem)

(***************************************************************************)
(* Properties of the rendered labels                                       *)
(***************************************************************************)
\* s.endswith(p)
EndsWith(s, p) == Len(s) >= Len(p) /\ Slice(s, Len(s) - Len(p) + 1, Len(s)) = p

\* the text a node line puts between its quote marks
NodeLabel(line) ==
    Slice(line.shape_end, 2, Len(line.shape_end) - Len(line.shape_start) - 1)

\* the nodes in the order the document declares them: the start node, then
\* the others as the node set holds them
EmissionOrder ==
    IF Has(nodes, start_node_id)
    THEN <<Get(nodes, start_node_id)>> \o SelectSeq(nodes, LAMBDA n : n.id # start_node_id)
    ELSE nodes

\* the connections the document draws, in the order of the connectors
KeptConnections == SelectSeq(connections, LAMBDA c : Has(nodes, c[1]) /\ Has(nodes, c[2]))

\* rendered is what the truncation rule makes of full under the maximum max
Truncated(rendered, full, max) ==
    /\ Len(rendered) <= max
    /\ IF Len(full) > max
       THEN Len(rendered) = max /\ EndsWith(rendered, Ellipsis)
       ELSE rendered = full

\* C11: every rendered node label has at most 50 characters and every
\* rendered edge label at most 30; a cleaned label longer than its maximum
\* is rendered with exactly the maximum length and ends with "...", and a
\* cleaned label within the maximum is rendered as it is.
C11_LabelsTruncated ==
    (pc = "done" /\ nodes # <<>>) =>
        /\ Len(NodeLines) = Len(EmissionOrder)
        /\ \A k \in 1..Len(NodeLines) :
               Truncated(NodeLabel(NodeLines[k]),
                         SafeTextFull(EmissionOrder[k].text), NodeLabelMax)
        /\ Len(EdgeLines) = Len(KeptConnections)
        /\ \A k \in 1..Len(EdgeLines) :
               EdgeLines[k].labeled =>
                   Truncated(EdgeLines[k].label,
                             CleanLabelFull(KeptConnections[k][3]), EdgeLabelMax)

\* a finished run whose cleaned node label has 51 characters and whose
\* cleaned edge label has more than 30: both are cut to their maximum
C11_Witness ==
    /\ pc = "done"
    /\ Len(nodes) = 1 /\ Len(NodeLines) = 1 /\ Len(EdgeLines) = 1
    /\ Len(SafeTextFull(nodes[1].text)) = NodeLabelMax + 1
    /\ Len(NodeLabel(NodeLines[1])) = NodeLabelMax
    /\ EndsWith(NodeLabel(NodeLines[1]), Ellipsis)
    /\ Len(CleanLabelFull(connections[1][3])) > EdgeLabelMax
    /\ Len(EdgeLines[1].label) = EdgeLabelMax
    /\ EndsWith(EdgeLines[1].label, Ellipsis)

(***************************************************************************)
(* Properties of whole runs                                                *)
(***************************************************************************)
S_Question == <<"I","s"," ","X"," ","t","r","u","e","?">>
S_Yes == <<"Y","e","s">>
S_No == <<"N","o">>

\* the non-empty normalized captions of a connector
CaptionTexts(conn) ==
    {_html_to_text(conn.captions[k]) : k \in 1..Len(conn.captions)} \ {<<>>}

\* the board of scenario A: item q is a rhombus that asks "Is X true?",
\* items a and b are shapes without content, the first connector goes from
\* q to a with the caption "Yes" and the second from q to b with "No"
ScenarioA(q, a, b) ==
    /\ Len(items) = 3 /\ Len(connectors) = 2
    /\ {q, a, b} = 1..3
    /\ \A i \in 1..3 : items[i].type = "shape" /\ ~NoId(items[i].id)
    /\ \A i, j \in 1..3 : i # j => items[i].id # items[j].id
    /\ items[q].shape = "rhombus" /\ items[q].content = HtmlQuestion
    /\ \A e \in {a, b} : items[e].shape # "rhombus" /\ items[e].content = <<>>
    /\ connectors[1].startItem = items[q].id /\ connectors[1].endItem = items[a].id
    /\ connectors[2].startItem = items[q].id /\ connectors[2].endItem = items[b].id
    /\ CaptionTexts(connectors[1]) = {S_Yes}
    /\ CaptionTexts(connectors[2]) = {S_No}

LabeledEdge(from, to, label) ==
    [kind |-> "edge", start |-> sanitize_id(from), end |-> sanitize_id(to),
     labeled |-> TRUE, label |-> label]

\* C12: on the board of scenario A the run ends with exactly three nodes,
\* the rhombus declared first and as a diamond, the two empty shapes as
\* rounded terminals, exactly two labeled edge lines "Yes" then "No" in the
\* order of the connectors, and the rhombus as the start node.
C12_ScenarioA ==
    pc = "done" =>
        \A q, a, b \in 1..3 : ScenarioA(q, a, b) =>
            /\ Len(nodes) = 3 /\ Len(NodeLines) = 3
            /\ start_node_id = items[q].id
            /\ mermaid_lines[2] = NodeLines[1]
            /\ NodeLines[1].id = sanitize_id(items[q].id)
            /\ NodeLines[1].shape_start = <<"{">>
            /\ NodeLines[1].shape_end = Quoted(S_Question) \o <<"}">>
            /\ \A k \in {2, 3} :
                   /\ NodeLines[k].shape_start = <<"(", "[">>
                   /\ EndsWith(NodeLines[k].shape_end, <<"]", ")">>)
            /\ {NodeLines[2].id, NodeLines[3].id}
                   = {sanitize_id(items[a].id), sanitize_id(items[b].id)}
            /\ EdgeLines = << LabeledEdge(items[q].id, items[a].id, S_Yes),
                              LabeledEdge(items[q].id, items[b].id, S_No) >>

\* a finished run on the board of scenario A whose rhombus is the last item
C12_Witness ==
    /\ pc = "done"
    /\ \E a, b \in 1..3 : ScenarioA(3, a, b)
    /\ start_node_id = items[3].id
    /\ Len(EdgeLines) = 2

RECURSIVE NodesOf(_)
\* the node set after the loop over the items its
NodesOf(its) ==
    IF its = <<>> THEN <<>>
    ELSE ExtractNode(NodesOf(SubSeq(its, 1, Len(its) - 1)), its[Len(its)])

RECURSIVE ConnectionsOf(_)
\* the connections after the loop over the connectors cns
ConnectionsOf(cns) ==
    IF cns = <<>> THEN <<>>
    ELSE ExtractConnection(ConnectionsOf(SubSeq(cns, 1, Len(cns) - 1)), cns[Len(cns)])

\* the input without its malformed records
ItemsWithId == SelectSeq(items, LAMBDA i : ~NoId(i.id))
ConnectorsWithIds == SelectSeq(connectors, WellFormed)

\* C13: an item without identifier gives no node, a connector without
\* source or target identifier gives no connection, and the nodes and the
\* connections of the run are those of the same input with the malformed
\* records removed; the finished run has written its document.
C13_MalformedSkipped ==
    /\ \A k \in 1..Len(nodes) : ~NoId(nodes[k].id)
    /\ \A k \in 1..Len(connections) :
           ~NoId(connections[k][1]) /\ ~NoId(connections[k][2])
    /\ nodes = NodesOf(ItemsWithId)
    /\ connections = ConnectionsOf(ConnectorsWithIds)
    /\ (pc = "done" /\ nodes # <<>>) => (files # {} /\ Len(NodeLines) = Len(nodes))

\* a finished run on a board that has an item without identifier between
\* two kept items and a connector without source before a kept connector
C13_Witness ==
    /\ pc = "done"
    /\ Len(items) = 3 /\ NoId(items[2].id)
    /\ Len(connectors) = 2 /\ ~WellFormed(connectors[1])
    /\ Len(nodes) = 2 /\ Len(connections) = 1 /\ Len(EdgeLines) = 1

\* C14: the start node of the run is the one the resolver chooses when the
\* connectors with an excluded or absent endpoint are removed: a connector
\* that comes from an item that is no node does not make its target
\* "incoming".
C14_StartIgnoresDroppedConnectors ==
    /\ pc = "resolved" => ret[1] = find_start_node(nodes, KeptConnections)
    /\ (pc = "done" /\ nodes # <<>>) =>
           start_node_id = find_start_node(nodes, KeptConnections)

\* the node line declares the node n
Declares(line, n) ==
    /\ line.kind = "node"
    /\ line.id = sanitize_id(n.id)
    /\ <<line.shape_start, line.shape_end>> = get_mermaid_shape(n, n.text)

\* C15: after the header the document declares the start node, then the
\* other nodes in the order of the node set, each node once; the blank
\* line follows the last node line and only edge lines follow the blank.
C15_NodeEmissionOrder ==
    (pc = "done" /\ nodes # <<>>) =>
        LET n == Len(nodes)
        IN  /\ Len(mermaid_lines) >= n + 2
            /\ mermaid_lines[1] = HeaderLine
            /\ Has(nodes, start_node_id)
            /\ Declares(mermaid_lines[2], Get(nodes, start_node_id))
            /\ \A i, j \in 1..n :
                   (i < j /\ nodes[i].id # start_node_id /\ nodes[j].id # start_node_id) =>
                       \E k, l \in 3..(n + 1) :
                           /\ k < l
                           /\ Declares(mermaid_lines[k], nodes[i])
                           /\ Declares(mermaid_lines[l], nodes[j])
            /\ \A i \in 1..n :
                   Cardinality({k \in 1..Len(mermaid_lines) :
                                   Declares(mermaid_lines[k], nodes[i])}) = 1
            /\ \A k \in 2..(n + 1) : mermaid_lines[k].kind = "node"
            /\ mermaid_lines[n + 2] = BlankLine
            /\ \A k \in (n + 3)..Len(mermaid_lines) : mermaid_lines[k].kind = "edge"

\* a finished run whose start node is the last of three nodes and whose
\* document has an edge line
C15_Witness ==
    /\ pc = "done"
    /\ Len(nodes) = 3
    /\ start_node_id = nodes[3].id
    /\ Declares(mermaid_lines[2], nodes[3])
    /\ Declares(mermaid_lines[3], nodes[1])
    /\ Len(EdgeLines) >= 1

\* the characters a rendered label must not hold
Forbidden == {"\"", "\n", "<", ">"} \cup Brackets

LabelSafe(label) == \A k \in 1..Len(label) : label[k] \notin Forbidden

\* how many times the piece p occurs in s
Occurrences(s, p) ==
    Cardinality({i \in 1..Len(s) :
                    i + Len(p) - 1 <= Len(s) /\ Slice(s, i, i + Len(p) - 1) = p})

\* every "<" and ">" of source stands escaped in rendered; a rendered label
\* of the maximum length may have lost its end
AnglesEscaped(rendered, source, max) ==
    Len(rendered) < max =>
        /\ Occurrences(rendered, <<"&","l","t",";">>) = Occurrences(source, <<"<">>)
        /\ Occurrences(rendered, <<"&","g","t",";">>) = Occurrences(source, <<">">>)

\* the node labels hold no forbidden character and escape the angle brackets
NodeLabelsEscaped ==
    (pc = "done" /\ nodes # <<>>) =>
        \A k \in 1..Len(NodeLines) :
            /\ LabelSafe(NodeLabel(NodeLines[k]))
            /\ AnglesEscaped(NodeLabel(NodeLines[k]), EmissionOrder[k].text, NodeLabelMax)

\* the non-empty edge labels hold no forbidden character
EdgeLabelsSafe ==
    (pc = "done" /\ nodes # <<>>) =>
        \A k \in 1..Len(EdgeLines) :
            EdgeLines[k].labeled => LabelSafe(EdgeLines[k].label)

\* C16: the text between the quote marks of every node label and of every
\* non-empty edge label holds no double quote, no newline, no "<" or ">"
\* and no structural bracket; node labels escape each "<" and ">" of their
\* source to "&lt;" and "&gt;", and edge labels escape them in the same way.
C16_LabelsEscaped ==
    /\ NodeLabelsEscaped
    /\ EdgeLabelsSafe
    /\ (pc = "done" /\ nodes # <<>>) =>
           \A k \in 1..Len(EdgeLines) :
               EdgeLines[k].labeled =>
                   AnglesEscaped(EdgeLines[k].label, KeptConnections[k][3], EdgeLabelMax)

=============================================================================
